---------------------------- MODULE Spec2Model ----------------------------
(***************************************************************************)
(* A model of node-eiscp (src/eiscp.js): the eISCP packet codec, the UDP   *)
(* discovery cycle, the TCP session with its reconnect policy, and the     *)
(* serialized send queue.                                                  *)
(*                                                                         *)
(* Three state machines share the module, each with its own               *)
(* specification:                                                          *)
(*   SpecCodec     eiscp_packet / eiscp_packet_extract on bounded inputs   *)
(*   SpecDiscover  one discover() call and its socket / timer events       *)
(*                 (FairSpecDiscover adds that the bind completes and the  *)
(*                 timeout timer expires)                                  *)
(*   Spec          connect / disconnect / raw and the socket, timer and    *)
(*                 queue callbacks of one session (FairSpec adds that a    *)
(*                 pending reconnect timer expires, FairCloseSpec that the *)
(*                 close event of a destroyed socket is delivered,         *)
(*                 FairQueueSpec that the queue's callbacks run)           *)
(* Strings are sequences of character codes; buffers are sequences of      *)
(* bytes.                                                                  *)
(***************************************************************************)
EXTENDS Integers, Sequences, FiniteSets, TLC

VARIABLES
    \* ---- codec machine
    cpc,            \* "input" | "encoded" | "extracted"
    msg,            \* the string handed to eiscp_packet
    packet,         \* the buffer eiscp_packet returned
    extracted,      \* the string eiscp_packet_extract returned
    \* ---- effects of the last handler that ran (events emitted, sends, ...)
    out,
    \* ---- discovery machine (one discover() call)
    dsock,          \* UDP socket: "none" | "unbound" | "binding" | "listening" | "closed"
    dtimer,         \* timeout_timer is armed
    ddevices,       \* options.devices after defaulting
    result,         \* the result array
    dcalls,         \* invocations of the caller's callback, in order
    dcloses,        \* client.close() calls that closed the socket
    dthrows,        \* exceptions thrown out of a handler
    dsent,          \* datagrams sent
    dlog,           \* datagrams delivered to the message handler, in order
    nerrs,          \* socket error events delivered
    \* ---- session machine
    config,         \* the module's config object
    is_connected,   \* self.is_connected
    sock,           \* eiscp: "none" (undefined) | "connecting" | "open" | "dead"
    closePending,   \* the socket was destroyed and its 'close' event is due
    reconnectTimers,\* pending setTimeout(self.connect, ...) timers
    discovering,    \* discover() calls of connect() that have not called back
    callerConnects, \* connect() calls made by the caller
    tasks,          \* send_queue: the items waiting, oldest first
    workers,        \* send_queue: ids of the items in flight (delay timer pending)
    processScheduled, \* send_queue: a deferred q.process() call is due
    nextId,         \* the number the next pushed item gets
    handled,        \* ids of the items handed to the worker, in order
    called          \* ids of the items whose completion callback ran, in order

varsCodec == <<cpc, msg, packet, extracted>>

varsDisc == <<dsock, dtimer, ddevices, result, dcalls, dcloses, dthrows, dsent, dlog, nerrs>>

varsConn == <<config, is_connected, sock, closePending, reconnectTimers, discovering,
              callerConnects>>

varsQueue == <<tasks, workers, processScheduled, nextId, handled, called>>

varsSess == <<varsConn, varsQueue>>

vars == <<cpc, msg, packet, extracted, out,
          dsock, dtimer, ddevices, result, dcalls, dcloses, dthrows, dsent, dlog, nerrs,
          config, is_connected, sock, closePending, reconnectTimers, discovering,
          callerConnects, tasks, workers, processScheduled, nextId, handled, called>>

(***************************************************************************)
(* Bounds of the model                                                     *)
(***************************************************************************)
\* longest message handed to the codec
MaxMsgLen == 3
\* datagrams delivered to one discovery
MaxDatagrams == 3
\* largest options.devices asked for
MaxDevices == 2
\* socket error events delivered to one discovery
MaxErrors == 2
\* connect() calls made by the caller
MaxConnects == 2
\* commands accepted by raw() / command()
MaxPush == 2

(***************************************************************************)
(* Characters and strings                                                  *)
(***************************************************************************)
BANG == 33
ONE == 49
CR == 13
LF == 10

\* '!', '1', 'P', 'x', CR and a non-ASCII character (e-acute, U+00E9)
Alphabet == {BANG, ONE, 80, 120, CR, 233}

RECURSIVE StringsUpTo(_)
StringsUpTo(n) ==
    IF n = 0 THEN {<<>>}
    ELSE LET shorter == StringsUpTo(n - 1)
         IN  shorter \cup {Append(s, c) : s \in {t \in shorter : Len(t) = n - 1}, c \in Alphabet}

Min(a, b) == IF a < b THEN a ELSE b
Max(a, b) == IF a > b THEN a ELSE b

\* String.prototype.slice(from) / slice(from, to), indices 0-based, non-negative
slice(s, from, to) ==
    LET f == Min(from, Len(s))
        t == Min(to, Len(s))
    IN  IF t <= f THEN <<>> ELSE SubSeq(s, f + 1, t)

sliceFrom(s, from) == slice(s, from, Len(s))

(***************************************************************************)
(* Buffers                                                                 *)
(***************************************************************************)
\* Buffer.from(string): the UTF-8 encoding of the string
RECURSIVE BufferFrom(_)
BufferFrom(s) ==
    IF s = <<>> THEN <<>>
    ELSE LET c == Head(s)
         IN  (IF c < 128 THEN <<c>>
              ELSE <<192 + (c \div 64), 128 + (c % 64)>>) \o BufferFrom(Tail(s))

\* buf.writeUInt32BE(value): the four bytes written
UInt32BE(n) ==
    << (n \div 16777216) % 256, (n \div 65536) % 256, (n \div 256) % 256, n % 256 >>

\* buf.readUInt32BE(offset)
readUInt32BE(buf, offset) ==
    buf[offset + 1] * 16777216 + buf[offset + 2] * 65536
        + buf[offset + 3] * 256 + buf[offset + 4]

\* buf.toString('ascii', start, end): each byte with its high bit cleared
toStringAscii(buf, start, end) ==
    LET s == Min(Max(start, 0), Len(buf))
        e == Min(end, Len(buf))
    IN  IF e <= s THEN <<>> ELSE [i \in 1..(e - s) |-> buf[s + i] % 128]

(***************************************************************************)
(* eiscp_packet and eiscp_packet_extract                                   *)
(***************************************************************************)
Magic == <<73, 83, 67, 80>>

\* "Add ISCP header if not already present"
AddMarker(data) ==
    IF Len(data) > 0 /\ data[1] = BANG THEN data ELSE <<BANG, ONE>> \o data

\* A slip of the length computation: the terminator is not counted.
eiscp_packet_shortlen(data) ==
    LET iscp_msg == BufferFrom(AddMarker(data) \o <<CR, LF>>)
    IN  Magic \o <<0, 0, 0, 16>> \o UInt32BE(Len(iscp_msg) - 2) \o <<1, 0, 0, 0>> \o iscp_msg

eiscp_packet(data) ==
    LET iscp_msg == BufferFrom(AddMarker(data) \o <<CR, LF>>)
        header   == Magic \o <<0, 0, 0, 16>> \o UInt32BE(Len(iscp_msg)) \o <<1, 0, 0, 0>>
    IN  header \o iscp_msg

eiscp_packet_extract(pkt) == toStringAscii(pkt, 18, Len(pkt) - 3)

(***************************************************************************)
(* The codec machine: a message is framed, the frame is decoded            *)
(***************************************************************************)
InitCodec ==
    /\ cpc = "input"
    /\ msg \in StringsUpTo(MaxMsgLen)
    /\ packet = <<>>
    /\ extracted = <<>>

\* the codec machine at rest, for the specifications of the other machines
IdleCodec ==
    /\ cpc = "input"
    /\ msg = <<>>
    /\ packet = <<>>
    /\ extracted = <<>>

Encode ==
    /\ cpc = "input"
    /\ packet' = eiscp_packet(msg)
    /\ cpc' = "encoded"
    /\ UNCHANGED <<msg, extracted>>
    /\ UNCHANGED <<out, varsDisc, varsSess>>

Extract ==
    /\ cpc = "encoded"
    /\ extracted' = eiscp_packet_extract(packet)
    /\ cpc' = "extracted"
    /\ UNCHANGED <<msg, packet>>
    /\ UNCHANGED <<out, varsDisc, varsSess>>

NextCodec == Encode \/ Extract

(***************************************************************************)
(* Effects: what a handler did that the outside can see.  out holds the    *)
(* effects of the last handler, in the order the code produced them.       *)
(***************************************************************************)
\* an event emitted on the module's EventEmitter
Emit(name) == [t |-> "emit", name |-> name, id |-> 0, pkt |-> <<>>]

(***************************************************************************)
(* Discovery (self.discover)                                               *)
(***************************************************************************)
SLASH == 47
NUL == 0
EOF == 26

ECN == <<69, 67, 78>>
\* '!xECNQSTN' and '!pECNQSTN'
OnkyoQuery == <<BANG, 120>> \o ECN \o <<81, 83, 84, 78>>
PioneerQuery == <<BANG, 112>> \o ECN \o <<81, 83, 84, 78>>

\* String.prototype.split(sep): the pieces between the separators
RECURSIVE split(_, _)
split(s, sep) ==
    IF \A i \in 1..Len(s) : s[i] # sep THEN <<s>>
    ELSE LET k == CHOOSE i \in 1..Len(s) : s[i] = sep /\ \A j \in 1..(i - 1) : s[j] # sep
         IN  <<SubSeq(s, 1, k - 1)>> \o split(SubSeq(s, k + 1, Len(s)), sep)

\* The devices that answer: address, and the fields of their answer.
Responders ==
    { [address |-> "10.0.0.1", model |-> <<65>>, port |-> <<54, 48>>, area |-> <<88, 88>>,
       mac |-> <<48, 48, 48, 57, 66, 48, 67, 56, 65, 53, 70, 52>>],
      [address |-> "10.0.0.2", model |-> <<66>>, port |-> <<54, 48>>, area |-> <<68, 88>>,
       mac |-> <<48, 48, 48, 57, 66, 48, 67, 56, 65, 53, 70, 53>>] }

\* A frame as a device sends it: the message under marker '!1', closed by
\* EOF CR LF (the three "end characters" eiscp_packet_extract strips).
DeviceFrame(text) ==
    LET iscp_msg == <<BANG, ONE>> \o text \o <<EOF, CR, LF>>
    IN  Magic \o <<0, 0, 0, 16>> \o UInt32BE(Len(iscp_msg)) \o <<1, 0, 0, 0>> \o iscp_msg

\* the discovery answer of responder r: ECN model/port/area/mac and null padding
EcnAnswer(r) ==
    ECN \o r.model \o <<SLASH>> \o r.port \o <<SLASH>> \o r.area \o <<SLASH>>
        \o r.mac \o <<NUL, NUL>>

\* an answer cut short: ECN model/port, without area code and MAC
ShortAnswer(r) == ECN \o r.model \o <<SLASH>> \o r.port

\* The datagrams that may arrive: an answer of each responder, an answer cut
\* short, a status message (PWR01), and another client's discovery query.
Datagrams ==
    { [kind |-> "answer", from |-> r, bytes |-> DeviceFrame(EcnAnswer(r))] : r \in Responders }
    \cup { [kind |-> "short", from |-> r, bytes |-> DeviceFrame(ShortAnswer(r))] : r \in Responders }
    \cup { [kind |-> "status", from |-> r,
            bytes |-> DeviceFrame(<<80, 87, 82, 48, 49>>)] : r \in Responders }
    \cup { [kind |-> "query", from |-> r, bytes |-> eiscp_packet(OnkyoQuery)] : r \in Responders }

\* A mix-up of the first two fields of the answer.
DeviceEntry_swapped(address, message) ==
    LET data == split(sliceFrom(message, 3), SLASH)
    IN  [host |-> address, port |-> data[1], model |-> data[2],
         mac |-> slice(data[4], 0, 12), areacode |-> data[3]]

\* the entry the message handler pushes for an ECN message from rinfo.address
DeviceEntry(address, message) ==
    LET data == split(sliceFrom(message, 3), SLASH)
    IN  [host |-> address, port |-> data[2], model |-> data[1],
         mac |-> slice(data[4], 0, 12), areacode |-> data[3]]

\* data[3].slice throws a TypeError when the message has fewer than four fields
EntryThrows(message) == Len(split(sliceFrom(message, 3), SLASH)) < 4

InitDisc ==
    /\ dsock = "none"
    /\ dtimer = FALSE
    /\ ddevices = 0
    /\ result = <<>>
    /\ dcalls = <<>>
    /\ dcloses = 0
    /\ dthrows = 0
    /\ dsent = <<>>
    /\ dlog = <<>>
    /\ nerrs = 0

\* discover([options,] callback); devices = 0 stands for an option left out
Discover(wellFormed, devices) ==
    /\ dsock = "none"
    /\ IF wellFormed
         THEN /\ ddevices' = (IF devices = 0 THEN 1 ELSE devices)
              /\ dsock' = "binding"
         ELSE /\ ddevices' = ddevices
              /\ dsock' = "unbound"
    /\ out' = <<>>
    /\ UNCHANGED <<dtimer, result, dcalls, dcloses, dthrows, dsent, dlog, nerrs>>
    /\ UNCHANGED <<varsCodec, varsSess>>

\* on('listening')
DListening ==
    /\ dsock = "binding"
    /\ dsock' = "listening"
    /\ dsent' = <<eiscp_packet(OnkyoQuery), eiscp_packet(PioneerQuery)>>
    /\ dtimer' = TRUE
    /\ out' = <<Emit("debug")>>
    /\ UNCHANGED <<ddevices, result, dcalls, dcloses, dthrows, dlog, nerrs>>
    /\ UNCHANGED <<varsCodec, varsSess>>

\* on('message'); the inner close() when enough devices have answered
DMessage(dg) ==
    /\ dsock = "listening"
    /\ Len(dlog) < MaxDatagrams
    /\ dlog' = Append(dlog, dg)
    /\ LET message == eiscp_packet_extract(dg.bytes)
           command == slice(message, 0, 3)
       IN  IF command = ECN
             THEN IF EntryThrows(message)
                    THEN /\ dthrows' = dthrows + 1
                         /\ out' = <<>>
                         /\ UNCHANGED <<dsock, dtimer, result, dcalls, dcloses>>
                    ELSE LET pushed == Append(result, DeviceEntry(dg.from.address, message))
                         IN  /\ result' = pushed
                             /\ out' = <<Emit("debug")>>
                             /\ IF Len(pushed) >= ddevices
                                  THEN /\ dtimer' = FALSE
                                       /\ dsock' = "closed"
                                       /\ dcloses' = dcloses + 1
                                       /\ dcalls' = Append(dcalls, [err |-> FALSE, hosts |-> <<pushed>>])
                                  ELSE UNCHANGED <<dsock, dtimer, dcalls, dcloses>>
                             /\ UNCHANGED dthrows
             ELSE /\ out' = <<Emit("debug")>>
                  /\ UNCHANGED <<dsock, dtimer, result, dcalls, dcloses, dthrows>>
    /\ UNCHANGED <<ddevices, dsent, nerrs>>
    /\ UNCHANGED <<varsCodec, varsSess>>

\* A timeout whose close() goes through on a closed socket.
DTimeout_again ==
    /\ dtimer
    /\ dtimer' = FALSE
    /\ out' = <<>>
    /\ dsock' = "closed"
    /\ dcloses' = dcloses + 1
    /\ dcalls' = Append(dcalls, [err |-> FALSE, hosts |-> <<result>>])
    /\ UNCHANGED <<dthrows, ddevices, result, dsent, dlog, nerrs>>
    /\ UNCHANGED <<varsCodec, varsSess>>

\* the timeout timer fires: close(); client.close() throws on a closed socket
DTimeout ==
    /\ dtimer
    /\ dtimer' = FALSE
    /\ out' = <<>>
    /\ IF dsock = "closed"
         THEN /\ dthrows' = dthrows + 1
              /\ UNCHANGED <<dsock, dcalls, dcloses>>
         ELSE /\ dsock' = "closed"
              /\ dcloses' = dcloses + 1
              /\ dcalls' = Append(dcalls, [err |-> FALSE, hosts |-> <<result>>])
              /\ UNCHANGED dthrows
    /\ UNCHANGED <<ddevices, result, dsent, dlog, nerrs>>
    /\ UNCHANGED <<varsCodec, varsSess>>

\* on('error'): a failed bind, a failed send or receive
DError ==
    /\ dsock \in {"binding", "listening", "closed"}
    /\ dsock = "closed" => dsent # <<>>
    /\ nerrs < MaxErrors
    /\ nerrs' = nerrs + 1
    /\ out' = <<Emit("error")>>
    /\ IF dsock = "closed"
         THEN /\ dthrows' = dthrows + 1
              /\ UNCHANGED <<dsock, dcalls, dcloses>>
         ELSE /\ dsock' = "closed"
              /\ dcloses' = dcloses + 1
              /\ dcalls' = Append(dcalls, [err |-> TRUE, hosts |-> <<>>])
              /\ UNCHANGED dthrows
    /\ UNCHANGED <<dtimer, ddevices, result, dsent, dlog>>
    /\ UNCHANGED <<varsCodec, varsSess>>

NextDisc ==
    \/ \E wf \in BOOLEAN, n \in 0..MaxDevices : Discover(wf, n)
    \/ DListening
    \/ \E dg \in Datagrams : DMessage(dg)
    \/ DTimeout
    \/ DError

(***************************************************************************)
(* The session: config, connect / disconnect and the socket handlers       *)
(***************************************************************************)
\* a TCP connection attempt (net.connect / eiscp.connect) to host:port
Tcp(host, port) == [t |-> "tcp", name |-> host, id |-> port, pkt |-> <<>>]
\* a timer expired: name is "reconnect" or "send", id the item of a send timer
Fired(name, id) == [t |-> "fired", name |-> name, id |-> id, pkt |-> <<>>]
\* eiscp.write(pkt) for item id; name is the state of the socket written to
Write(id, pkt) == [t |-> "write", name |-> sock, id |-> id, pkt |-> pkt]
\* the completion callback of item id is invoked: name is "ok" or "fail"
Cb(id, v) == [t |-> "cb", name |-> v, id |-> id, pkt |-> <<>>]

EffectsOf(o, kind) == SelectSeq(o, LAMBDA e : e.t = kind)
Emits(o, name) == \E i \in 1..Len(o) : o[i].t = "emit" /\ o[i].name = name

DefaultPort == 60128
DefaultReconnectSleep == 5
DefaultSendDelay == 500

\* An unset string is "" (model: <<>>), an unset number is 0, as `||` sees them;
\* reconnect is <<>> when options leaves it undefined.
NoOptions ==
    [host |-> "", port |-> 0, model |-> <<>>, reconnect |-> <<>>,
     reconnect_sleep |-> 0, send_delay |-> 0]

\* the options the caller passes to connect()
ConnectOptions ==
    { NoOptions,
      [NoOptions EXCEPT !.host = "10.0.0.1", !.model = <<65>>],
      [NoOptions EXCEPT !.host = "10.0.0.1"],
      [NoOptions EXCEPT !.reconnect = <<FALSE>>],
      [NoOptions EXCEPT !.reconnect = <<TRUE>>],
      [NoOptions EXCEPT !.port = 60129, !.reconnect_sleep = 1, !.send_delay = 100] }

\* A discovery callback that passes the device on without its address.
FoundDevice_nohost(r) == [NoOptions EXCEPT !.port = DefaultPort, !.model = r.model]

\* hosts[0] of a discovery that found responder r
FoundDevice(r) == [NoOptions EXCEPT !.host = r.address, !.port = DefaultPort, !.model = r.model]

\* what a discovery started by connect() calls back with: an error, an empty
\* list, or a list whose first entry is a responder
DiscoverOutcomes == {"error", "empty", "found"}

InitConfig ==
    [host |-> "", port |-> DefaultPort, model |-> <<>>, reconnect |-> TRUE,
     reconnect_sleep |-> DefaultReconnectSleep, send_delay |-> DefaultSendDelay]

\* connect(): the merge of options into config
MergeConfig(cfg, options) ==
    [host |-> IF options.host # "" THEN options.host ELSE cfg.host,
     port |-> IF options.port # 0 THEN options.port ELSE cfg.port,
     model |-> IF options.model # <<>> THEN options.model ELSE cfg.model,
     reconnect |-> IF options.reconnect = <<>> THEN cfg.reconnect ELSE options.reconnect[1],
     reconnect_sleep |-> IF options.reconnect_sleep # 0 THEN options.reconnect_sleep
                         ELSE cfg.reconnect_sleep,
     send_delay |-> cfg.send_delay]

\* A close handler that re-arms the timer whatever the flag says.
ScheduleReconnect_always(cfg, timers) == timers + 1

\* A close handler that never re-arms the timer.
ScheduleReconnect_never(cfg, timers) == timers

\* the close handler: if (config.reconnect) setTimeout(self.connect, ...)
ScheduleReconnect(cfg, timers) == IF cfg.reconnect THEN timers + 1 ELSE timers

\* self.connect(options), whoever calls it: `pending` is the number of
\* discoveries outstanding apart from the one this call may start, `before`
\* the effects of the handler so far.  When a socket exists the attempt goes
\* through eiscp.connect(), whatever state the socket is in.
DoConnect(options, pending, before) ==
    LET cfg == MergeConfig(config, options)
    IN  /\ config' = cfg
        /\ IF cfg.host = "" \/ cfg.model = <<>>
             THEN /\ discovering' = pending + 1
                  /\ out' = before
                  /\ UNCHANGED sock
             ELSE /\ discovering' = pending
                  /\ out' = before \o <<Emit("debug"), Tcp(cfg.host, cfg.port)>>
                  /\ sock' = "connecting"

\* the caller calls connect(options)
Connect(options) ==
    /\ callerConnects < MaxConnects
    /\ callerConnects' = callerConnects + 1
    /\ DoConnect(options, discovering, <<>>)
    /\ UNCHANGED <<is_connected, closePending, reconnectTimers, varsQueue>>
    /\ UNCHANGED <<varsCodec, varsDisc>>

\* a reconnect timer fires: self.connect() without options
ReconnectTimerFire ==
    /\ reconnectTimers > 0
    /\ reconnectTimers' = reconnectTimers - 1
    /\ DoConnect(NoOptions, discovering, <<Fired("reconnect", 0)>>)
    /\ UNCHANGED <<is_connected, closePending, callerConnects, varsQueue>>
    /\ UNCHANGED <<varsCodec, varsDisc>>

\* the callback connect() gave to discover() is invoked
DiscoverReturn(outcome, first) ==
    /\ discovering > 0
    /\ IF outcome = "found"
         THEN DoConnect(FoundDevice(first), discovering - 1, <<>>)
         ELSE /\ discovering' = discovering - 1
              /\ out' = <<>>
              /\ UNCHANGED <<config, sock>>
    /\ UNCHANGED <<is_connected, closePending, reconnectTimers, callerConnects, varsQueue>>
    /\ UNCHANGED <<varsCodec, varsDisc>>

\* on('connect'); the 'close' event of a destroyed handle is delivered before
\* a later attempt on the same socket can complete
SockConnect ==
    /\ sock = "connecting"
    /\ ~closePending
    /\ sock' = "open"
    /\ is_connected' = TRUE
    /\ out' = <<Emit("debug"), Emit("connect")>>
    /\ UNCHANGED <<config, closePending, reconnectTimers, discovering, callerConnects, varsQueue>>
    /\ UNCHANGED <<varsCodec, varsDisc>>

\* An error handler that reports the error and leaves the socket alone.
SockError_nodestroy ==
    /\ sock \in {"connecting", "open"}
    /\ out' = <<Emit("error")>>
    /\ UNCHANGED <<varsConn, varsQueue>>
    /\ UNCHANGED <<varsCodec, varsDisc>>

\* on('error'): the attempt failed or the connection broke; eiscp.destroy()
SockError ==
    /\ sock \in {"connecting", "open"}
    /\ sock' = "dead"
    /\ closePending' = TRUE
    /\ out' = <<Emit("error")>>
    /\ UNCHANGED <<config, is_connected, reconnectTimers, discovering, callerConnects, varsQueue>>
    /\ UNCHANGED <<varsCodec, varsDisc>>

\* on('close'): after a destroy, or when the peer closes the connection; a
\* socket that was told to connect again in between stays connecting
SockClose ==
    /\ closePending \/ sock = "open"
    /\ closePending' = FALSE
    /\ sock' = (IF closePending /\ sock = "connecting" THEN "connecting" ELSE "dead")
    /\ is_connected' = FALSE
    /\ out' = <<Emit("debug"), Emit("close")>>
    /\ reconnectTimers' = ScheduleReconnect(config, reconnectTimers)
    /\ UNCHANGED <<config, discovering, callerConnects, varsQueue>>
    /\ UNCHANGED <<varsCodec, varsDisc>>

\* A disconnect() that leaves the socket alone.
Disconnect_keeps ==
    /\ out' = <<>>
    /\ UNCHANGED <<varsConn, varsQueue>>
    /\ UNCHANGED <<varsCodec, varsDisc>>

\* the caller calls disconnect() / close()
Disconnect ==
    /\ IF is_connected /\ sock \in {"connecting", "open"}
         THEN sock' = "dead" /\ closePending' = TRUE
         ELSE UNCHANGED <<sock, closePending>>
    /\ out' = <<>>
    /\ UNCHANGED <<config, is_connected, reconnectTimers, discovering, callerConnects, varsQueue>>
    /\ UNCHANGED <<varsCodec, varsDisc>>

\* obj[key] of a JavaScript object: <<>> (undefined) when the object has no
\* such property, <<value>> otherwise
Property(obj, key) == IF key \in DOMAIN obj THEN <<obj[key]>> ELSE <<>>

\* the argument an event was emitted with: a string, or undefined
Arg(v) ==
    [t |-> "arg", name |-> IF v = <<>> THEN "undefined" ELSE "string", id |-> 0,
     pkt |-> IF v = <<>> THEN <<>> ELSE v[1]]

\* self.emit(topic, v) for a topic computed from a message: the event, then
\* its argument
EmitTopic(topic, v) == <<[t |-> "emit", name |-> "topic", id |-> 0, pkt |-> topic], Arg(v)>>

\* The frames the receiver sends on the connection: PWR01, MVL1A, and NLS
\* without an argument.
InboundFrames ==
    { DeviceFrame(<<80, 87, 82, 48, 49>>), DeviceFrame(<<77, 86, 76, 49, 65>>),
      DeviceFrame(<<78, 76, 83>>) }

\* the result object the data handler builds
DataResult(data) ==
    LET iscp_message == eiscp_packet_extract(data)
    IN  [iscp_raw |-> iscp_message, command |-> slice(iscp_message, 0, 3),
         data |-> sliceFrom(iscp_message, 3),
         host |-> config.host, port |-> config.port, model |-> config.model]

\* on('data'): the debug event, the data event with the result object (its
\* iscp_raw shown), and the event named by result.command
SockData(data) ==
    /\ sock = "open"
    /\ ~closePending
    /\ LET r == DataResult(data)
       IN  out' = <<Emit("debug"), Emit("data"), Arg(<<r.iscp_raw>>)>>
                    \o EmitTopic(r.command, Property(r, "argument"))
    /\ UNCHANGED <<varsConn, varsQueue>>
    /\ UNCHANGED <<varsCodec, varsDisc>>

(***************************************************************************)
(* The send queue: async.queue(worker, 1), raw and command                 *)
(***************************************************************************)
Concurrency == 1

\* 'PWR01' and 'MVLUP'
Commands == { <<80, 87, 82, 48, 49>>, <<77, 86, 76, 85, 80>> }

\* A queue that puts a new item in front of the waiting ones.
q_push_front(ts, task) == <<task>> \o ts

\* send_queue.push(data, callback)
q_push(ts, task) == Append(ts, task)

\* A queue that starts an item whatever is in flight.
CanStart_unguarded(ws) == TRUE

\* q.process: an item is started while fewer than `concurrency` are in flight
CanStart(ws) == Cardinality(ws) < Concurrency

\* A worker that calls back at once after the write, without the timer.
StartDelay_none(ws, id) == ws

\* the worker, connected: setTimeout(callback, config.send_delay, false)
StartDelay(ws, id) == ws \cup {id}

\* the worker, connected: the delay its setTimeout call is given
SendDelay(cfg) == cfg.send_delay

\* A worker that fails an item without the error event.
WorkerFail_silent(task) == <<Cb(task.id, "fail")>>

\* A worker that fails an item without calling back.
WorkerFail_nocallback(task) == <<Emit("error")>>

\* the worker, not connected: the error event and callback(message, null)
WorkerFail(task) == <<Emit("error"), Cb(task.id, "fail")>>

\* A worker that writes the packet twice.
WorkerSend_twice(task) ==
    <<Emit("debug"), Write(task.id, eiscp_packet(task.data)),
      Write(task.id, eiscp_packet(task.data))>>

\* the worker, connected: the debug event and eiscp.write(eiscp_packet(data))
WorkerSend(task) == <<Emit("debug"), Write(task.id, eiscp_packet(task.data))>>

\* q.process(): items are handed to the worker, oldest first, while one may
\* start; an item failed by the worker is complete at once and the loop goes on
RECURSIVE Process(_, _, _, _)
Process(ts, ws, o, h) ==
    IF ts = <<>> \/ ~CanStart(ws)
      THEN [tasks |-> ts, workers |-> ws, out |-> o, handled |-> h]
      ELSE LET task == Head(ts)
           IN  IF is_connected
                 THEN Process(Tail(ts), StartDelay(ws, task.id), o \o WorkerSend(task),
                              Append(h, task.id))
                 ELSE Process(Tail(ts), ws, o \o WorkerFail(task), Append(h, task.id))

\* the items whose completion callback the effects invoke, in order
RECURSIVE Callbacks(_)
Callbacks(o) ==
    IF o = <<>> THEN <<>>
    ELSE (IF Head(o).t = "cb" /\ Head(o).id > 0 THEN <<Head(o).id>> ELSE <<>>)
            \o Callbacks(Tail(o))

\* a queue item: its number, its data, and the state at the call that pushed
\* it: not connected (offline), an earlier item in flight (busy)
Task(id, data) ==
    [id |-> id, data |-> data, offline |-> ~is_connected, busy |-> workers # {}]

\* the caller calls raw(data, callback); data = "" is refused at once
Raw(data) ==
    /\ nextId <= MaxPush
    /\ IF data # <<>>
         THEN /\ tasks' = q_push(tasks, Task(nextId, data))
              /\ nextId' = nextId + 1
              /\ processScheduled' = TRUE
              /\ out' = <<>>
         ELSE /\ out' = <<Cb(0, "nodata")>>
              /\ UNCHANGED <<tasks, nextId, processScheduled>>
    /\ UNCHANGED <<workers, handled, called, varsConn>>
    /\ UNCHANGED <<varsCodec, varsDisc>>

\* the caller calls command(cmd, data, callback): raw(cmd + data, callback)
Command(cmd, data) ==
    /\ nextId <= MaxPush
    /\ cmd \o data # <<>>
    /\ tasks' = q_push(tasks, Task(nextId, cmd \o data))
    /\ nextId' = nextId + 1
    /\ processScheduled' = TRUE
    /\ out' = <<>>
    /\ UNCHANGED <<workers, handled, called, varsConn>>
    /\ UNCHANGED <<varsCodec, varsDisc>>

\* the q.process() call that push deferred runs
ProcessTick ==
    /\ processScheduled
    /\ processScheduled' = FALSE
    /\ LET r == Process(tasks, workers, <<>>, handled)
       IN  /\ tasks' = r.tasks
           /\ workers' = r.workers
           /\ handled' = r.handled
           /\ out' = r.out
           /\ called' = called \o Callbacks(r.out)
    /\ UNCHANGED <<nextId, varsConn>>
    /\ UNCHANGED <<varsCodec, varsDisc>>

\* the delay timer of item id expires: callback(false), then q.process()
SendTimerFire(id) ==
    /\ id \in workers
    /\ LET r == Process(tasks, workers \ {id}, <<Fired("send", id), Cb(id, "ok")>>, handled)
       IN  /\ tasks' = r.tasks
           /\ workers' = r.workers
           /\ handled' = r.handled
           /\ out' = r.out
           /\ called' = called \o Callbacks(r.out)
    /\ UNCHANGED <<nextId, processScheduled, varsConn>>
    /\ UNCHANGED <<varsCodec, varsDisc>>

InitSess ==
    /\ config = InitConfig
    /\ is_connected = FALSE
    /\ sock = "none"
    /\ closePending = FALSE
    /\ reconnectTimers = 0
    /\ discovering = 0
    /\ callerConnects = 0
    /\ tasks = <<>>
    /\ workers = {}
    /\ processScheduled = FALSE
    /\ nextId = 1
    /\ handled = <<>>
    /\ called = <<>>

NextSess ==
    \/ \E options \in ConnectOptions : Connect(options)
    \/ ReconnectTimerFire
    \/ \E outcome \in DiscoverOutcomes, first \in Responders : DiscoverReturn(outcome, first)
    \/ SockConnect
    \/ SockError
    \/ SockClose
    \/ Disconnect
    \/ \E frame \in InboundFrames : SockData(frame)
    \/ \E data \in Commands \cup {<<>>} : Raw(data)
    \/ \E cmd \in {<<80, 87, 82>>}, data \in {<<48, 49>>} : Command(cmd, data)
    \/ ProcessTick
    \/ \E id \in 1..MaxPush : SendTimerFire(id)

(***************************************************************************)
(* Specifications                                                          *)
(***************************************************************************)
Init == IdleCodec /\ InitDisc /\ InitSess /\ out = <<>>

Spec == Init /\ [][NextSess]_vars

\* A reconnect timer that is pending expires.
FairReconnect == WF_vars(ReconnectTimerFire)

FairSpec == Spec /\ FairReconnect

\* The 'close' event of a destroyed socket is delivered.
FairClose == WF_vars(closePending /\ SockClose)

FairCloseSpec == Spec /\ FairClose

\* The callbacks the queue has scheduled run: the deferred q.process() call
\* and the delay timer of the item in flight.
QueueStep == ProcessTick \/ \E id \in 1..MaxPush : SendTimerFire(id)

\* a callback of the queue is due; this is ENABLED <<QueueStep>>_vars
QueueDue == processScheduled \/ workers # {}

QueueDueIsEnabled == QueueDue <=> ENABLED <<QueueStep>>_vars

\* Weak fairness of QueueStep, that is WF_vars(QueueStep), with the state
\* predicate QueueDue in the place of ENABLED <<QueueStep>>_vars.
FairQueue == []<>(~QueueDue) \/ []<><<QueueStep>>_vars

FairQueueSpec == Spec /\ FairQueue

InitCodecSpec == InitCodec /\ InitDisc /\ InitSess /\ out = <<>>

SpecCodec == InitCodecSpec /\ [][NextCodec]_vars

InitDiscover == IdleCodec /\ InitDisc /\ InitSess /\ out = <<>>

SpecDiscover == InitDiscover /\ [][NextDisc]_vars

\* bind(0) completes and the timeout timer, once armed, expires.
FairDiscover == WF_vars(DListening) /\ WF_vars(DTimeout)

FairSpecDiscover == SpecDiscover /\ FairDiscover

(***************************************************************************)
(* Claims about the codec                                                  *)
(***************************************************************************)
IsAsciiLine(s) == \A i \in 1..Len(s) : s[i] < 128 /\ s[i] # CR /\ s[i] # LF

\* the code and argument of a message text (the marker already removed)
CodeOf(text) == slice(text, 0, 3)
ArgOf(text) == sliceFrom(text, 3)

\* the message after default-marker normalization, its marker removed
Unmarked(m) == sliceFrom(AddMarker(m), 2)

\* C1: for every ASCII message without CR/LF, decoding the frame that
\* eiscp_packet built gives back the code and the argument of the
\* (marker-normalized) message.
C1_RoundTrip ==
    (cpc = "extracted" /\ IsAsciiLine(msg)) =>
        /\ CodeOf(extracted) = CodeOf(Unmarked(msg))
        /\ ArgOf(extracted) = ArgOf(Unmarked(msg))

\* C2: the frame has a 16-byte header (magic, header length 16, version 1,
\* three zero bytes) and its big-endian payload-length field at offset 8 is
\* the number of bytes after the header: the marker-normalized message and
\* CR LF.
C2_HeaderAndLength ==
    (cpc # "input") =>
        /\ Len(packet) >= 16
        /\ SubSeq(packet, 1, 4) = Magic
        /\ readUInt32BE(packet, 4) = 16
        /\ packet[13] = 1
        /\ SubSeq(packet, 14, 16) = <<0, 0, 0>>
        /\ readUInt32BE(packet, 8) = Len(packet) - 16
        /\ SubSeq(packet, 17, Len(packet)) = BufferFrom(AddMarker(msg)) \o <<CR, LF>>

\* a frame whose message got the default marker and holds a two-byte character
C2_Witness ==
    /\ cpc = "encoded"
    /\ Len(msg) = MaxMsgLen
    /\ msg[1] # BANG
    /\ \E i \in 1..Len(msg) : msg[i] > 127
    /\ readUInt32BE(packet, 8) > Len(msg) + 4

(***************************************************************************)
(* Claims about discovery                                                  *)
(***************************************************************************)
\* the entries a log of delivered datagrams should have produced: one per
\* discovery answer, in arrival order, with the fields the device sent
RECURSIVE AnswersOf(_)
AnswersOf(log) ==
    IF log = <<>> THEN <<>>
    ELSE LET dg == Head(log)
         IN  (IF dg.kind = "answer"
                THEN <<[host |-> dg.from.address, port |-> dg.from.port,
                        model |-> dg.from.model, mac |-> dg.from.mac,
                        areacode |-> dg.from.area]>>
                ELSE <<>>) \o AnswersOf(Tail(log))

\* C9: absent socket errors, the callback gets no error and the list of one
\* entry per discovery answer received, in arrival order, repeated answers
\* of one device included; the list has options.devices entries once that
\* many answers have arrived, and the fewer received when the timeout fires;
\* other datagrams add nothing.
C9_DiscoverResult ==
    nerrs = 0 =>
        /\ result = AnswersOf(dlog)
        /\ Len(dcalls) <= 1
        /\ Len(AnswersOf(dlog)) >= ddevices =>
              (dsock \notin {"none", "unbound"} => dcalls = <<[err |-> FALSE, hosts |-> <<AnswersOf(dlog)>>]>>)
        /\ dcalls # <<>> =>
              /\ dcalls[1] = [err |-> FALSE, hosts |-> <<AnswersOf(dlog)>>]
              /\ Len(AnswersOf(dlog)) <= ddevices
              /\ Len(AnswersOf(dlog)) < ddevices => (~dtimer /\ dsock = "closed")

\* two answers of the same device, a status message between them, end the
\* discovery with a list of two entries
C9_Witness ==
    /\ nerrs = 0
    /\ Len(dcalls) = 1
    /\ ~dcalls[1].err
    /\ Len(dcalls[1].hosts[1]) = 2
    /\ dcalls[1].hosts[1][1] = dcalls[1].hosts[1][2]
    /\ \E i \in 1..Len(dlog) : dlog[i].kind = "status"

\* C10: once a discovery has stopped (by device count, by timeout or by a
\* socket error) its socket has been closed exactly once and no timeout
\* timer is pending.
C10_ClosedOnceNoTimer ==
    (dsock = "closed" \/ dcalls # <<>>) => (dcloses = 1 /\ ~dtimer)

\* C16: a datagram that is not a well-formed discovery answer (another
\* command code, or an ECN payload with fewer than four fields) is
\* non-fatal: its handler adds no entry, does not stop the discovery, emits
\* no error event and throws nothing.
C16_MalformedIgnored ==
    [][(Len(dlog') = Len(dlog) + 1 /\ dlog'[Len(dlog')].kind # "answer") =>
          /\ result' = result
          /\ <<dsock', dtimer', dcalls', dcloses'>> = <<dsock, dtimer, dcalls, dcloses>>
          /\ ~Emits(out', "error")
          /\ dthrows' = dthrows]_vars

FiredSends(o) == {o[i].id : i \in {j \in 1..Len(o) : o[j].t = "fired" /\ o[j].name = "send"}}

\* ids of the items handed to the worker by the step
NewlyHandled == {handled'[k] : k \in (Len(handled) + 1)..Len(handled')}

\* C3: two consecutive writes are separated by a complete delay: a handler
\* writes at most once, the write arms the delay timer of its item, and it
\* happens only when no delay timer is pending other than the one whose
\* expiry the handler is.
C3_WritesPaced ==
    [][LET w == EffectsOf(out', "write")
       IN  /\ Len(w) <= 1
           /\ w # <<>> => /\ workers \ FiredSends(out') = {}
                          /\ w[1].id \in workers']_vars

\* a second item is written in the handler of the first item's timer, after
\* the connection was lost and made again during the delay
C3_Witness ==
    /\ Len(handled) >= 2
    /\ EffectsOf(out, "write") # <<>>
    /\ FiredSends(out) # {}
    /\ reconnectTimers > 0

\* what the worker owes the items it is handed while not connected
RECURSIVE FailuresOf(_, _)
FailuresOf(h, k) ==
    IF k > Len(h) THEN <<>>
    ELSE <<Emit("error"), Cb(h[k], "fail")>> \o FailuresOf(h, k + 1)

\* C4 (original): a call made while not connected gets its failure callback
\* without waiting for any delay timer, also when an earlier item's delay is
\* running at the call: no item pushed while not connected, with an earlier
\* item in flight, is left waiting behind that item's delay timer.
C4_FailsWithoutWaiting ==
    ~ (/\ workers # {}
       /\ ~processScheduled
       /\ \E i \in 1..Len(tasks) : tasks[i].offline /\ tasks[i].busy)

\* C4 (amended): an item the worker is handed while the session is not
\* connected is failed in that very handler: an error event and the failure
\* callback for each such item, in order, no write and no delay timer; and an
\* item waits in the queue only for the deferred q.process() call or for the
\* delay timer of the item in flight.
C4_FailsWhenHandledOffline ==
    [][/\ (~is_connected /\ handled' # handled) =>
            /\ SelectSeq(out', LAMBDA e : (e.t = "emit" /\ e.name = "error")
                                          \/ (e.t = "cb" /\ e.name = "fail"))
                  = FailuresOf(handled', Len(handled) + 1)
            /\ EffectsOf(out', "write") = <<>>
            /\ NewlyHandled \cap workers' = {}
       /\ tasks' # <<>> => (processScheduled' \/ workers' # {})]_vars

\* two items pushed while not connected are failed by one q.process() call
C4_Witness ==
    /\ ~is_connected
    /\ Len(EffectsOf(out, "cb")) = 2
    /\ Emits(out, "error")
    /\ workers = {}
    /\ tasks = <<>>

\* C5: the queue is FIFO: the items are handed to the worker in the order
\* they were pushed, and their callbacks run in that order, each after its
\* item was handed over.
C5_Fifo ==
    /\ \A k \in 1..Len(handled) : handled[k] = k
    /\ \A k \in 1..Len(called) : called[k] = k
    /\ Len(called) <= Len(handled)
    /\ \A i \in 1..Len(tasks) : tasks[i].id = Len(handled) + i

\* the first item was sent; the connection was lost during its delay, and the
\* handler of its timer completes it and then fails the second item
C5_Witness ==
    /\ called = <<1, 2>>
    /\ out = <<Fired("send", 1), Cb(1, "ok"), Emit("error"), Cb(2, "fail")>>

\* C6: at most one item is in flight, and while it is (its delay timer
\* pending) no other item is handed to the worker.
C6_OneInFlight ==
    [][/\ Cardinality(workers') <= 1
       /\ NewlyHandled # {} => workers \ FiredSends(out') = {}]_vars

\* an item is in flight on a lost connection while another one waits
C6_Witness ==
    /\ workers # {}
    /\ tasks # <<>>
    /\ ~processScheduled
    /\ ~is_connected

(***************************************************************************)
(* Claims about reconnection                                               *)
(***************************************************************************)
HasTcp(o) == EffectsOf(o, "tcp") # <<>>

\* C7 (original): once a close event was handled with the reconnect flag
\* disabled, no TCP connection attempt is made unless the caller calls
\* connect() again.
C7_NoAttemptAfterClose ==
    [][(sock = "dead" /\ ~closePending /\ ~config.reconnect
        /\ callerConnects' = callerConnects) => ~HasTcp(out')]_vars

\* C7 (amended): a close event handled with the reconnect flag disabled
\* schedules no reconnect timer; and a TCP connection attempt is made only by
\* a connect() call of the caller, by a reconnect timer that is already
\* pending, or by the callback of a discovery that is already pending.
C7_NoTimerWhenDisabled ==
    [][/\ (Emits(out', "close") /\ ~config.reconnect) => reconnectTimers' = reconnectTimers
       /\ (reconnectTimers = 0 /\ discovering = 0 /\ callerConnects' = callerConnects)
             => ~HasTcp(out')]_vars

\* a close event was handled with the flag disabled and nothing is pending
C7_Witness ==
    /\ Emits(out, "close")
    /\ ~config.reconnect
    /\ reconnectTimers = 0
    /\ discovering = 0
    /\ sock = "dead"

\* a close event was handled with the reconnect flag enabled
CloseHandledReconnect == Emits(out, "close") /\ config.reconnect

\* a reconnect timer expired and its handler attempted a TCP connection to
\* the configured host and port
ReconnectAttempt ==
    /\ \E i \in 1..Len(out) : out[i] = Fired("reconnect", 0)
    /\ \E i \in 1..Len(out) : out[i] = Tcp(config.host, config.port)

\* C8: after a close event handled with the reconnect flag enabled, a
\* reconnect timer eventually expires and its handler attempts a TCP
\* connection to the configured host and port; every expiry of a reconnect
\* timer makes that attempt.
C8_ReconnectEventually ==
    /\ [][reconnectTimers' < reconnectTimers =>
            \E i \in 1..Len(out') : out'[i] = Tcp(config'.host, config'.port)]_vars
    /\ [](CloseHandledReconnect => <>ReconnectAttempt)

\* the attempt of a reconnect timer, on a socket that a disconnect() closed
C8_Witness ==
    /\ ReconnectAttempt
    /\ sock = "connecting"
    /\ ~is_connected
    /\ reconnectTimers = 0

(***************************************************************************)
(* Claims about inbound data                                               *)
(***************************************************************************)
\* C11: for every inbound frame decoded to code c and argument a, the data
\* handler emits the data event and then an event whose topic is c and
\* whose payload is exactly a.
C11_TopicCarriesArgument ==
    [][\A frame \in InboundFrames :
          (sock = "open" /\ ~closePending /\ Emits(out', "data")
           /\ out'[3] = Arg(<<eiscp_packet_extract(frame)>>)) =>
              LET text == eiscp_packet_extract(frame)
              IN  /\ Len(out') = 5
                  /\ out'[2] = Emit("data")
                  /\ SubSeq(out', 4, 5) = EmitTopic(CodeOf(text), <<ArgOf(text)>>)]_vars

(***************************************************************************)
(* Claims about the configuration                                          *)
(***************************************************************************)
\* the configuration with every field that options defines overwritten
OverwriteDefined(cfg, options) ==
    [host |-> IF options.host # "" THEN options.host ELSE cfg.host,
     port |-> IF options.port # 0 THEN options.port ELSE cfg.port,
     model |-> IF options.model # <<>> THEN options.model ELSE cfg.model,
     reconnect |-> IF options.reconnect # <<>> THEN options.reconnect[1] ELSE cfg.reconnect,
     reconnect_sleep |-> IF options.reconnect_sleep # 0 THEN options.reconnect_sleep
                         ELSE cfg.reconnect_sleep,
     send_delay |-> IF options.send_delay # 0 THEN options.send_delay ELSE cfg.send_delay]

\* C12: connect(options) overwrites each configuration field (host, port,
\* model, reconnect flag, reconnect delay, send delay) with the supplied
\* value exactly when options defines it and leaves the others unchanged; a
\* supplied send_delay is the delay the queue worker uses from then on.
C12_MergeDefinedFields ==
    [][\A options \in ConnectOptions :
          Connect(options) =>
              /\ config' = OverwriteDefined(config, options)
              /\ options.send_delay # 0 => SendDelay(config') = options.send_delay]_vars

(***************************************************************************)
(* Claims about the writes of the queue worker                             *)
(***************************************************************************)
\* the ids of a sequence of effects
RECURSIVE IdsOf(_)
IdsOf(o) == IF o = <<>> THEN <<>> ELSE <<Head(o).id>> \o IdsOf(Tail(o))

Range(f) == {f[i] : i \in DOMAIN f}

\* C13: a command is written at most once: a handler writes exactly the
\* items it hands to the worker while connected, each once and as
\* eiscp_packet(command), and writes nothing while not connected; no item is
\* handed over twice, and every item pushed is waiting, in flight with its
\* delay timer pending, or has had its callback invoked.
C13_OneWritePerCommand ==
    [][LET w == EffectsOf(out', "write")
       IN  /\ IdsOf(w) = (IF is_connected
                            THEN SubSeq(handled', Len(handled) + 1, Len(handled'))
                            ELSE <<>>)
           /\ \A i \in 1..Len(w) :
                 \E k \in 1..Len(tasks) : /\ tasks[k].id = w[i].id
                                          /\ w[i].pkt = eiscp_packet(tasks[k].data)
           /\ \A j, k \in 1..Len(handled') : handled'[j] = handled'[k] => j = k
           /\ Range(handled') = Range(called') \cup workers'
           /\ Range(called') \cap workers' = {}
           /\ 1..(nextId' - 1) = Range(handled') \cup {tasks'[k].id : k \in 1..Len(tasks')}]_vars

\* the first item was failed while not connected; the second one is written,
\* once, as the frame of MVLUP
C13_Witness ==
    /\ handled = <<1, 2>>
    /\ called = <<1>>
    /\ workers = {2}
    /\ Len(EffectsOf(out, "write")) = 1
    /\ EffectsOf(out, "write")[1].id = 2
    /\ EffectsOf(out, "write")[1].pkt = eiscp_packet(<<77, 86, 76, 85, 80>>)

(***************************************************************************)
(* Claims about discovery before connecting                                *)
(***************************************************************************)
\* C14: with no host configured, connect() starts a discovery and attempts
\* no TCP connection; the attempt is made by the callback of a discovery
\* that found a device, and targets the host, port and model of the first
\* device; a discovery that reports an error or an empty list leads to no
\* attempt, no timer and no new discovery.
C14_DiscoveryBeforeConnect ==
    [][/\ config'.host = "" => ~HasTcp(out')
       /\ (config.host = "" /\ HasTcp(out') /\ callerConnects' = callerConnects) =>
             /\ discovering > 0
             /\ discovering' = discovering - 1
             /\ \E first \in Responders :
                   /\ out' = <<Emit("debug"), Tcp(first.address, DefaultPort)>>
                   /\ config'.host = first.address
                   /\ config'.port = DefaultPort
                   /\ config'.model = first.model
       /\ \A first \in Responders :
             /\ DiscoverReturn("found", first) => out' = <<Emit("debug"), Tcp(first.address, DefaultPort)>>
             /\ \A outcome \in {"error", "empty"} :
                   DiscoverReturn(outcome, first) =>
                       /\ ~HasTcp(out')
                       /\ discovering' = discovering - 1
                       /\ reconnectTimers' = reconnectTimers
                       /\ <<config', sock'>> = <<config, sock>>]_vars

\* connect() was called once, with no host, and the discovery found the
\* device that the attempt now targets
C14_Witness ==
    /\ callerConnects = 1
    /\ discovering = 0
    /\ sock = "connecting"
    /\ config.host = "10.0.0.2"
    /\ out = <<Emit("debug"), Tcp("10.0.0.2", DefaultPort)>>

(***************************************************************************)
(* Claims about socket errors and disconnect                               *)
(***************************************************************************)
\* the error handler of the socket was the last handler to run
SocketErrorHandled == out = <<Emit("error")>>

\* the close handler was the last handler to run
CloseHandled == Emits(out, "close") /\ ~is_connected /\ ~closePending

\* C15: a socket error is reported by an error event and destroys the
\* socket; the close handler runs afterwards: the session is no longer
\* connected, the close event is emitted and a reconnect timer is armed if
\* the flag is enabled.
C15_ErrorThenClose ==
    /\ [](SocketErrorHandled => (sock = "dead" /\ closePending))
    /\ [][Emits(out', "close") =>
            /\ ~is_connected' /\ ~closePending'
            /\ reconnectTimers' = (IF config.reconnect THEN reconnectTimers + 1
                                    ELSE reconnectTimers)]_vars
    /\ [](SocketErrorHandled => <>CloseHandled)

\* an established connection broke: the error was handled, the close event
\* is due and the session still counts as connected
C15_Witness ==
    /\ SocketErrorHandled
    /\ is_connected
    /\ closePending
    /\ sock = "dead"

\* C17: the queue worker writes only to a live socket: no write goes to a
\* socket that disconnect() or the error handler destroyed, the time between
\* the destroy call and the close handler included; an item handed to the
\* worker in that time is failed, not sent.
C17_WritesOnlyWhenLive ==
    [][/\ \A i \in 1..Len(out') :
             out'[i].t = "write" => (out'[i].name # "dead" /\ ~closePending)
       /\ (closePending /\ NewlyHandled # {}) =>
             /\ NewlyHandled \cap workers' = {}
             /\ \A id \in NewlyHandled : \E i \in 1..Len(out') : out'[i] = Cb(id, "fail")]_vars

\* what holds when disconnect() returns: the session is not connected, or
\* its socket has been destroyed
DisconnectReturned == ~ (is_connected /\ sock \in {"connecting", "open"})

\* the reconnect flag is disabled and the caller makes no further connect()
NoMoreConnects == ~config.reconnect /\ callerConnects = MaxConnects

\* C19 (original): after disconnect() has returned, with the reconnect flag
\* disabled and no later connect() of the caller, the session eventually is
\* disconnected and stays so, whatever the state disconnect() was called
\* in, a connection attempt in progress included.
C19_DisconnectedForGood ==
    []((DisconnectReturned /\ NoMoreConnects) => <>[](~is_connected))

\* C19 (amended): disconnect() destroys the socket of a connected session
\* and does nothing otherwise; after it has returned, with the reconnect
\* flag disabled, no later connect() of the caller, and no connection
\* attempt, reconnect timer or discovery pending, the session eventually is
\* disconnected and stays so.
C19_DisconnectedWhenIdle ==
    /\ [][Disconnect => /\ DisconnectReturned'
                        /\ ~is_connected => <<sock', closePending'>> = <<sock, closePending>>
                        /\ is_connected' = is_connected]_vars
    /\ []((/\ DisconnectReturned /\ NoMoreConnects
            /\ sock # "connecting" /\ reconnectTimers = 0 /\ discovering = 0)
              => <>[](~is_connected))

\* disconnect() has just destroyed the socket of a connected session, with
\* the flag disabled and nothing pending: the close event is due
C19_Witness ==
    /\ out = <<>>
    /\ is_connected /\ closePending /\ sock = "dead"
    /\ NoMoreConnects
    /\ reconnectTimers = 0 /\ discovering = 0
    /\ nextId = 1

(***************************************************************************)
(* Claims about the completion of commands                                 *)
(***************************************************************************)
\* C20: every command accepted by raw / command has its completion callback
\* invoked, once, whatever connect, close, error and disconnect events
\* occur: no callback runs twice or for an item that was not pushed, and
\* again and again every item accepted so far has been called back.
C20_EveryCommandCalledBack ==
    /\ [](/\ \A j, k \in 1..Len(called) : called[j] = called[k] => j = k
           /\ Range(called) \subseteq 1..(nextId - 1))
    /\ []<>(Range(called) = 1..(nextId - 1))

\* all the commands were accepted and called back, the last one as sent,
\* after the connection was lost during its delay
C20_Witness ==
    /\ nextId = MaxPush + 1
    /\ Range(called) = 1..MaxPush
    /\ \E i \in 1..Len(out) : out[i] = Cb(MaxPush, "ok")
    /\ ~is_connected
    /\ sock = "dead"

=============================================================================
